---- MODULE Spec2Model ----
(***************************************************************************)
(* Notes API: four Lambda handlers (create.py, list.py, update.py,         *)
(* delete.py) over one DynamoDB table keyed by (owner, id).                *)
(*                                                                         *)
(* Each invocation runs in two atomic steps: everything the handler does   *)
(* before its single table call (configuration check, path id, body        *)
(* parsing, uuid4(), datetime.now()), and the table call together with     *)
(* the mapping of its outcome to the response.  Invocations of different   *)
(* workers interleave between the two steps.                               *)
(***************************************************************************)
EXTENDS Integers, Sequences, FiniteSets, TLC

\* Bounds of the model.
NumProcs  == 2      \* concurrent Lambda workers
NumIds    == 4      \* distinct values uuid4() can return
SpecIds   == 2      \* how many of them the workers of Spec draw
MaxClock  == 2      \* reads of the wall clock in a run of Spec, and instants read

Procs == 1..NumProcs

--------------------------------------------------------------------------
(* Text.  Strings that the code strips are sequences of characters.  A    *)
(* character that a TLA+ string cannot hold is written as its code point. *)

\* the characters str.strip() removes: those for which str.isspace() holds
Whitespace ==
    { "\t", "\n", "U+000B", "\f", "\r", "U+001C", "U+001D", "U+001E", "U+001F",
      " ", "U+0085", "U+00A0", "U+1680", "U+2000", "U+2001", "U+2002", "U+2003",
      "U+2004", "U+2005", "U+2006", "U+2007", "U+2008", "U+2009", "U+200A",
      "U+2028", "U+2029", "U+202F", "U+205F", "U+3000" }

RECURSIVE lstrip(_)
lstrip(s) == IF s # <<>> /\ Head(s) \in Whitespace THEN lstrip(Tail(s)) ELSE s

RECURSIVE rstrip(_)
rstrip(s) ==
    IF s # <<>> /\ s[Len(s)] \in Whitespace
    THEN rstrip(SubSeq(s, 1, Len(s) - 1))
    ELSE s

\* str.strip()
strip(s) == rstrip(lstrip(s))

Digits == <<"1", "2", "3", "4", "5">>

\* str(uuid.uuid4()): one of NumIds identifiers, rendered as text
uuid4 == 1..NumIds
UuidStr(n) == <<Digits[n]>>
UUIDs == {UuidStr(n) : n \in uuid4}

\* position of a sort key in the table's ascending key order
IdRank(id) == CHOOSE n \in 1..Len(Digits) : <<Digits[n]>> = id

\* one sequence element that stands for BlockBytes letters "y" in a row, so
\* that a note of several hundred kilobytes is a short sequence
Block == "y*"
BlockBytes == 400000

\* the UTF-8 length of a character
CharBytes(c) ==
    CASE c = Block -> BlockBytes
      [] c \in {"U+0085", "U+00A0"} -> 2
      [] c \in {"U+1680", "U+2000", "U+2001", "U+2002", "U+2003", "U+2004",
                "U+2005", "U+2006", "U+2007", "U+2008", "U+2009", "U+200A",
                "U+2028", "U+2029", "U+202F", "U+205F", "U+3000"} -> 3
      [] OTHER -> 1

RECURSIVE TextBytes(_)
TextBytes(s) == IF s = <<>> THEN 0 ELSE CharBytes(Head(s)) + TextBytes(Tail(s))

--------------------------------------------------------------------------
(* Configuration.                                                          *)

OWNER == "global"

\* the process environment: NOTES_TABLE_NAME unset, blank, or naming a table
EnvValues ==
    { [set |-> FALSE, v |-> <<>>],
      [set |-> TRUE,  v |-> <<>>],
      [set |-> TRUE,  v |-> <<" ">>],
      [set |-> TRUE,  v |-> <<"\t", "U+00A0">>],
      [set |-> TRUE,  v |-> <<"n">>] }

\* TABLE_NAME as it would be without the .strip()
TABLE_NAME_nostrip(env) == IF env.set THEN env.v ELSE <<>>

\* os.environ.get("NOTES_TABLE_NAME", "").strip()
TABLE_NAME(env) == strip(IF env.set THEN env.v ELSE <<>>)

--------------------------------------------------------------------------
(* Requests.                                                               *)

MissingF == [t |-> "missing", s |-> <<>>]
NullF    == [t |-> "null",    s |-> <<>>]
StrF(s)  == [t |-> "str",     s |-> s]

\* event bodies, by what json.loads makes of them
NoBodyKey == [t |-> "nokey",   title |-> MissingF, note |-> MissingF]
NoneBody  == [t |-> "none",    title |-> MissingF, note |-> MissingF]
BadJson   == [t |-> "badjson", title |-> MissingF, note |-> MissingF]
JsonArray == [t |-> "array",   title |-> MissingF, note |-> MissingF]
Obj(ti, no) == [t |-> "object", title |-> ti, note |-> no]

Bodies ==
    { NoBodyKey, NoneBody, BadJson, JsonArray,
      Obj(StrF(<<" ", "a">>), StrF(<<"x", " ">>)),
      Obj(StrF(<<"b">>), StrF(<<"y">>)),
      Obj(StrF(<<>>), StrF(<<"x">>)),
      Obj(StrF(<<" ">>), StrF(<<"x">>)),
      Obj(StrF(<<"\t">>), StrF(<<"x">>)),
      Obj(StrF(<<"a">>), StrF(<<"\n", "U+2003">>)),
      Obj(StrF(<<"\r", "c", "\n">>), StrF(<<"U+3000", "z">>)),
      Obj(StrF(<<"a">>), StrF(<<>>)),
      Obj(StrF(<<"a">>), StrF(<<" ", " ">>)),
      Obj(MissingF, StrF(<<"x">>)),
      Obj(StrF(<<"a">>), MissingF),
      Obj(NullF, StrF(<<"x">>)) }

\* event["pathParameters"]: key absent, null, or a dict with or without "id"
NoPathKey   == [t |-> "nokey", id |-> MissingF]
NonePath    == [t |-> "none",  id |-> MissingF]
PathDict(f) == [t |-> "dict",  id |-> f]

RawIds == {<<>>, <<" ">>, <<"\t">>, <<"\n", "U+0085">>}
            \cup UUIDs \cup {<<" ">> \o u \o <<"\n">> : u \in UUIDs}

PathParams ==
    {NoPathKey, NonePath, PathDict(MissingF), PathDict(NullF)}
        \cup {PathDict(StrF(r)) : r \in RawIds}

\* str(x) for the values a JSON field can hold here
PyStr(f) ==
    CASE f.t = "str"     -> f.s
      [] f.t = "null"    -> <<"N", "o", "n", "e">>
      [] f.t = "missing" -> <<>>

\* parse_body as it would be without the .strip() of title and note
parse_body_nostrip(body) ==
    LET fail(e, m) == [exc |-> e, msg |-> m, title |-> <<>>, note |-> <<>>]
        title == PyStr(body.title)
        note  == PyStr(body.note)
    IN  CASE body.t = "none"    -> fail("TypeError", "")
          [] body.t = "badjson" -> fail("JSONDecodeError", "Invalid request body: JSONDecodeError")
          [] body.t = "array"   -> fail("AttributeError", "")
          [] body.t \in {"nokey", "object"} ->
                IF title = <<>>
                THEN fail("ValueError", "Invalid request body: title is required")
                ELSE IF note = <<>>
                THEN fail("ValueError", "Invalid request body: note is required")
                ELSE [exc |-> "", msg |-> "", title |-> title, note |-> note]

\* the body of the try block that parses the request:
\*   payload = json.loads(event.get("body", "{}")); title/note via str().strip()
\* (the decoder's own message text is kept as the name of its exception)
parse_body(body) ==
    LET fail(e, m) == [exc |-> e, msg |-> m, title |-> <<>>, note |-> <<>>]
        title == strip(PyStr(body.title))
        note  == strip(PyStr(body.note))
    IN  CASE body.t = "none"    -> fail("TypeError", "")
          [] body.t = "badjson" -> fail("JSONDecodeError", "Invalid request body: JSONDecodeError")
          [] body.t = "array"   -> fail("AttributeError", "")
          [] body.t \in {"nokey", "object"} ->
                IF title = <<>>
                THEN fail("ValueError", "Invalid request body: title is required")
                ELSE IF note = <<>>
                THEN fail("ValueError", "Invalid request body: note is required")
                ELSE [exc |-> "", msg |-> "", title |-> title, note |-> note]

\* _get_note_id(event)
get_note_id(pp) ==
    CASE pp.t = "none"  -> <<>>
      [] pp.t = "nokey" -> <<>>
      [] pp.t = "dict"  -> IF pp.id.t = "str" THEN strip(pp.id.s) ELSE <<>>

\* _require_env(): TRUE when it raises ValueError
require_env(env) == TABLE_NAME(env) = <<>>

EnvError == "NOTES_TABLE_NAME environment variable is required"

--------------------------------------------------------------------------
(* Responses.                                                              *)

\* _response(status_code, body)
response(status_code, body) ==
    [statusCode |-> status_code, contentType |-> "application/json",
     raised |-> "", body |-> body]

\* an exception that no except clause of the handler catches
Unhandled(exc) ==
    [statusCode |-> 0, contentType |-> "", raised |-> exc, body |-> [error |-> exc]]

NoResp == [statusCode |-> 0, contentType |-> "", raised |-> "", body |-> [error |-> ""]]

NoCtx == [note_id |-> <<>>, title |-> <<>>, note |-> <<>>, now |-> 0]

--------------------------------------------------------------------------
(* The table.  Items are attribute maps; the table maps the sort key of   *)
(* each stored item to the item (the partition key is OWNER throughout).  *)

\* how a table call ends: served by the table, rejected by the service with
\* a ClientError other than a failed condition, or failing below the service
\* with an exception that is not a ClientError
StoreOutcomes == {"ok", "ProvisionedThroughputExceededException", "EndpointConnectionError"}

ConditionalCheckFailed == "ConditionalCheckFailedException"

\* exceptions of class botocore.exceptions.ClientError
IsClientError(err) ==
    err \in {ConditionalCheckFailed, "ProvisionedThroughputExceededException",
             "ValidationException"}

\* DynamoDB's limits: the size of one item, and of the data one Query reads
MaxItemBytes == 409600
PageBytes == 1048576

\* the instants of the clock are TickMicros microseconds apart, so that
\* some fall on a whole second and some do not
TickMicros == 500000

\* datetime.microsecond of the instant t
microsecond(t) == (t * TickMicros) % 1000000

\* the length of datetime.isoformat() with a UTC offset: the fraction of the
\* second is left out when the microsecond is 0
IsoBytes(t) == IF microsecond(t) = 0 THEN 25 ELSE 32

\* the size of an attribute: its name plus its value (a uuid4 string has 36
\* characters)
AttrBytes(item, a) ==
    IF a \notin DOMAIN item THEN 0
    ELSE CASE a = "owner"      -> 5 + 6
           [] a = "id"         -> 2 + 36
           [] a = "title"      -> 5 + TextBytes(item.title)
           [] a = "note"       -> 4 + TextBytes(item.note)
           [] a = "created_at" -> 10 + IsoBytes(item.created_at)
           [] a = "updated_at" -> 10 + IsoBytes(item.updated_at)

\* the size of an item
ItemBytes(item) ==
    AttrBytes(item, "owner") + AttrBytes(item, "id") + AttrBytes(item, "title")
        + AttrBytes(item, "note") + AttrBytes(item, "created_at")
        + AttrBytes(item, "updated_at")

\* put_item as it would be without its ConditionExpression
put_item_unconditional(tbl, item, outcome) ==
    IF outcome # "ok" THEN [err |-> outcome, table |-> tbl]
    ELSE IF ItemBytes(item) > MaxItemBytes
    THEN [err |-> "ValidationException", table |-> tbl]
    ELSE [err |-> "", table |-> (item.id :> item) @@ tbl]

\* table.put_item(Item=item, ConditionExpression="attribute_not_exists(#id)")
put_item(tbl, item, outcome) ==
    IF outcome # "ok" THEN [err |-> outcome, table |-> tbl]
    ELSE IF ItemBytes(item) > MaxItemBytes
    THEN [err |-> "ValidationException", table |-> tbl]
    ELSE IF item.id \in DOMAIN tbl /\ "id" \in DOMAIN tbl[item.id]
    THEN [err |-> ConditionalCheckFailed, table |-> tbl]
    ELSE [err |-> "", table |-> (item.id :> item) @@ tbl]

\* SetAttributes as it would be if the update rewrote both timestamps
SetAttributes_both_timestamps(tbl, key, title, note, ts) ==
    LET old == IF key \in DOMAIN tbl THEN tbl[key] ELSE [owner |-> OWNER, id |-> key]
    IN  [a \in DOMAIN old \cup {"title", "note", "updated_at"} |->
            CASE a = "title"      -> title
              [] a = "note"       -> note
              [] a = "updated_at" -> ts
              [] a = "created_at" -> ts
              [] OTHER            -> old[a]]

\* SetAttributes as it would be if updated_at were only ever moved forward
SetAttributes_newest_timestamp(tbl, key, title, note, ts) ==
    LET old == IF key \in DOMAIN tbl THEN tbl[key] ELSE [owner |-> OWNER, id |-> key]
    IN  [a \in DOMAIN old \cup {"title", "note", "updated_at"} |->
            CASE a = "title"      -> title
              [] a = "note"       -> note
              [] a = "updated_at" ->
                    IF "updated_at" \in DOMAIN old /\ old.updated_at > ts
                    THEN old.updated_at ELSE ts
              [] OTHER            -> old[a]]

\* SET #title = :title, #note = :note, #updated_at = :ts on the item under key
\* (an absent item starts from its key attributes)
SetAttributes(tbl, key, title, note, ts) ==
    LET old == IF key \in DOMAIN tbl THEN tbl[key] ELSE [owner |-> OWNER, id |-> key]
    IN  [a \in DOMAIN old \cup {"title", "note", "updated_at"} |->
            CASE a = "title"      -> title
              [] a = "note"       -> note
              [] a = "updated_at" -> ts
              [] OTHER            -> old[a]]

\* update_item as it would be with ReturnValues="ALL_OLD"
update_item_all_old(tbl, key, title, note, ts, outcome) ==
    IF outcome # "ok" THEN [err |-> outcome, table |-> tbl, Attributes |-> <<>>]
    ELSE IF ~(key \in DOMAIN tbl /\ "id" \in DOMAIN tbl[key])
    THEN [err |-> ConditionalCheckFailed, table |-> tbl, Attributes |-> <<>>]
    ELSE LET new == SetAttributes(tbl, key, title, note, ts)
         IN  IF ItemBytes(new) > MaxItemBytes
             THEN [err |-> "ValidationException", table |-> tbl, Attributes |-> <<>>]
             ELSE [err |-> "", table |-> (key :> new) @@ tbl, Attributes |-> tbl[key]]

\* update_item as it would be without its ConditionExpression: an upsert
update_item_upsert(tbl, key, title, note, ts, outcome) ==
    IF outcome # "ok" THEN [err |-> outcome, table |-> tbl, Attributes |-> <<>>]
    ELSE LET new == SetAttributes(tbl, key, title, note, ts)
         IN  IF ItemBytes(new) > MaxItemBytes
             THEN [err |-> "ValidationException", table |-> tbl, Attributes |-> <<>>]
             ELSE [err |-> "", table |-> (key :> new) @@ tbl, Attributes |-> new]

\* table.update_item(Key=..., UpdateExpression=..., ConditionExpression=
\*     "attribute_exists(#id)", ReturnValues="ALL_NEW")
update_item(tbl, key, title, note, ts, outcome) ==
    IF outcome # "ok" THEN [err |-> outcome, table |-> tbl, Attributes |-> <<>>]
    ELSE IF ~(key \in DOMAIN tbl /\ "id" \in DOMAIN tbl[key])
    THEN [err |-> ConditionalCheckFailed, table |-> tbl, Attributes |-> <<>>]
    ELSE LET new == SetAttributes(tbl, key, title, note, ts)
         IN  IF ItemBytes(new) > MaxItemBytes
             THEN [err |-> "ValidationException", table |-> tbl, Attributes |-> <<>>]
             ELSE [err |-> "", table |-> (key :> new) @@ tbl, Attributes |-> new]

\* delete_item as it would be without its ConditionExpression
delete_item_unconditional(tbl, key, outcome) ==
    IF outcome # "ok" THEN [err |-> outcome, table |-> tbl]
    ELSE [err |-> "", table |-> [k \in DOMAIN tbl \ {key} |-> tbl[k]]]

\* table.delete_item(Key=..., ConditionExpression="attribute_exists(#id)")
delete_item(tbl, key, outcome) ==
    IF outcome # "ok" THEN [err |-> outcome, table |-> tbl]
    ELSE IF ~(key \in DOMAIN tbl /\ "id" \in DOMAIN tbl[key])
    THEN [err |-> ConditionalCheckFailed, table |-> tbl]
    ELSE [err |-> "", table |-> [k \in DOMAIN tbl \ {key} |-> tbl[k]]]

\* the items of one Query page: those of the keys in ascending sort-key
\* order, read until PageBytes are reached, read bytes having been read
\* before; past tells whether the item that crosses the limit is still
\* part of the page
RECURSIVE FirstItems(_, _, _, _)
FirstItems(tbl, keys, read, past) ==
    IF keys = {} THEN <<>>
    ELSE LET k == CHOOSE x \in keys : \A y \in keys : IdRank(x) <= IdRank(y)
             total == read + ItemBytes(tbl[k])
         IN  IF total <= PageBytes
             THEN <<tbl[k]>> \o FirstItems(tbl, keys \ {k}, total, past)
             ELSE IF past THEN <<tbl[k]>> ELSE <<>>

\* table.query(KeyConditionExpression=Key("owner").eq(OWNER)) answered from
\* the copy tbl of the table: one response page; the handler asks for no
\* further page
query(tbl, owner, outcome, past) ==
    IF outcome # "ok" THEN [err |-> outcome, Items |-> <<>>]
    ELSE [err |-> "",
          Items |-> FirstItems(tbl, {k \in DOMAIN tbl : tbl[k].owner = owner}, 0, past)]

--------------------------------------------------------------------------
(* State.                                                                  *)

VARIABLES
    table,   \* the DynamoDB table: sort key -> item
    replica, \* the table as a copy that lags behind sees it: what a read
             \*   that is not strongly consistent may be answered from
    clock,   \* how many times datetime.now() has been read
    pc,      \* per worker: "idle", "call" (before its table call), "done"
             \*   (its response is out, the worker not yet free again)
    op,      \* per worker: the handler it runs
    ctx,     \* per worker: the handler's locals note_id, title, note, now
    resp,    \* per worker: what its last invocation returned
    gone,    \* history: ids whose last change was a Delete that returned 200
    refused, \* history: the ids of gone on which a later Update or Delete
             \*   was answered by the table with a failed condition
    fresh,   \* history: id -> body of the 201 that created it, while no
             \*   Update or Delete on the id has reached the table since
    event    \* the request under study in SpecRequests; none elsewhere

vars == <<table, replica, clock, pc, op, ctx, resp, gone, refused, fresh, event>>

Ops == {"none", "create", "list", "update", "delete"}

\* a request: the handler invoked, the environment of its process, and the
\* event's pathParameters and body; uuid is what uuid4() will return
Request(o, env, pp, body, uuid) ==
    [op |-> o, env |-> env, pathParameters |-> pp, body |-> body, uuid |-> uuid]

NoEvent == Request("none", [set |-> FALSE, v |-> <<>>], NoPathKey, NoBodyKey, 1)

Init ==
    /\ event = NoEvent
    /\ table = <<>>
    /\ replica = <<>>
    /\ clock = 0
    /\ pc = [p \in Procs |-> "idle"]
    /\ op = [p \in Procs |-> "none"]
    /\ ctx = [p \in Procs |-> NoCtx]
    /\ resp = [p \in Procs |-> NoResp]
    /\ gone = {}
    /\ refused = {}
    /\ fresh = <<>>

\* f without the key k
Without(f, k) == [x \in DOMAIN f \ {k} |-> f[x]]

\* refused after a table call on id ended with err
Refusal(id, err) ==
    IF id \in gone /\ err = ConditionalCheckFailed THEN refused \cup {id} ELSE refused

\* the locals that name the invocation once it has returned
Returned(c) == [NoCtx EXCEPT !.note_id = c.note_id]

\* the handler returns (or raises) r before reaching its table call
Return(p, o, c, r) ==
    /\ pc' = [pc EXCEPT ![p] = "done"]
    /\ op' = [op EXCEPT ![p] = o]
    /\ ctx' = [ctx EXCEPT ![p] = c]
    /\ resp' = [resp EXCEPT ![p] = r]
    /\ UNCHANGED <<table, replica, clock, gone, refused, fresh, event>>

\* the handler reaches its table call with locals c
Proceed(p, o, c) ==
    /\ pc' = [pc EXCEPT ![p] = "call"]
    /\ op' = [op EXCEPT ![p] = o]
    /\ ctx' = [ctx EXCEPT ![p] = c]
    /\ resp' = [resp EXCEPT ![p] = NoResp]
    /\ UNCHANGED <<table, replica, gone, refused, fresh, event>>

\* the worker, its response delivered, is free for the next invocation
finish(p) ==
    /\ pc[p] = "done"
    /\ pc' = [pc EXCEPT ![p] = "idle"]
    /\ op' = [op EXCEPT ![p] = "none"]
    /\ ctx' = [ctx EXCEPT ![p] = NoCtx]
    /\ resp' = [resp EXCEPT ![p] = NoResp]
    /\ UNCHANGED <<table, replica, clock, gone, refused, fresh, event>>

\* the lagging copy of the table catches up
replicate ==
    /\ replica # table
    /\ replica' = table
    /\ UNCHANGED <<table, clock, pc, op, ctx, resp, gone, refused, fresh, event>>

\* the except clause of the body parse: ValueError and JSONDecodeError become
\* a 400, anything else leaves the handler
ParseFailure(parsed) ==
    IF parsed.exc \in {"ValueError", "JSONDecodeError"}
    THEN response(400, [error |-> parsed.msg])
    ELSE Unhandled(parsed.exc)

\* datetime.now(timezone.utc).isoformat(): the instants a read of the wall
\* clock can return.  Each worker reads its own host's clock, so two reads
\* can return the same instant, or a later read an earlier instant
\* (isoformat keeps the order of instants, which is all the model uses)
now == 1..MaxClock

--------------------------------------------------------------------------
(* create.py                                                               *)

\* lambda_handler up to the put_item call
create_begin(p, env, body, uuid, t) ==
    /\ pc[p] = "idle"
    /\ LET parsed == parse_body(body)
       IN  IF require_env(env)
           THEN Return(p, "create", NoCtx, response(500, [error |-> EnvError]))
           ELSE IF parsed.exc # ""
           THEN Return(p, "create", NoCtx, ParseFailure(parsed))
           ELSE /\ clock' = clock + 1
                /\ Proceed(p, "create",
                       [note_id |-> UuidStr(uuid), title |-> parsed.title,
                        note |-> parsed.note, now |-> t])

\* the item built from the handler's locals
create_item(c) ==
    [owner |-> OWNER, id |-> c.note_id, title |-> c.title, note |-> c.note,
     created_at |-> c.now, updated_at |-> c.now]

\* what the handler returns after put_item ended with err
create_result(c, err) ==
    IF err = "" THEN response(201, [id |-> c.note_id, title |-> c.title, note |-> c.note])
    ELSE IF IsClientError(err) THEN response(500, [error |-> "Failed to create note"])
    ELSE Unhandled(err)

\* lambda_handler from the put_item call to the return
create_put(p, outcome) ==
    /\ pc[p] = "call" /\ op[p] = "create"
    /\ LET r == put_item(table, create_item(ctx[p]), outcome)
           res == create_result(ctx[p], r.err)
       IN  /\ table' = r.table
           /\ resp' = [resp EXCEPT ![p] = res]
           /\ gone' = IF r.err = "" THEN gone \ {ctx[p].note_id} ELSE gone
           /\ refused' = IF r.err = "" THEN refused \ {ctx[p].note_id} ELSE refused
           /\ fresh' = IF r.err = "" THEN (ctx[p].note_id :> res.body) @@ fresh ELSE fresh
    /\ pc' = [pc EXCEPT ![p] = "done"]
    /\ ctx' = [ctx EXCEPT ![p] = Returned(ctx[p])]
    /\ UNCHANGED <<replica, clock, op, event>>

--------------------------------------------------------------------------
(* list.py                                                                 *)

\* lambda_handler up to the query call
list_begin(p, env) ==
    /\ pc[p] = "idle"
    /\ IF require_env(env)
       THEN Return(p, "list", NoCtx, response(500, [error |-> EnvError]))
       ELSE Proceed(p, "list", NoCtx) /\ UNCHANGED clock

\* what the handler returns after query ended as r
list_result(r) ==
    IF r.err = "" THEN response(200, [items |-> r.Items])
    ELSE IF IsClientError(r.err) THEN response(500, [error |-> "Failed to list notes"])
    ELSE Unhandled(r.err)

\* lambda_handler from the query call to the return.  The call asks for no
\* ConsistentRead, so it is answered from the table or from its lagging copy
list_query(p, outcome) ==
    /\ pc[p] = "call" /\ op[p] = "list"
    /\ \E tbl \in {table, replica}, past \in BOOLEAN :
          resp' = [resp EXCEPT ![p] = list_result(query(tbl, OWNER, outcome, past))]
    /\ pc' = [pc EXCEPT ![p] = "done"]
    /\ UNCHANGED <<table, replica, clock, op, ctx, gone, refused, fresh, event>>

--------------------------------------------------------------------------
(* update.py                                                               *)

\* lambda_handler up to the update_item call
update_begin(p, env, pp, body, t) ==
    /\ pc[p] = "idle"
    /\ LET note_id == get_note_id(pp)
           parsed  == parse_body(body)
           idctx   == [NoCtx EXCEPT !.note_id = note_id]
       IN  IF require_env(env)
           THEN Return(p, "update", NoCtx, response(500, [error |-> EnvError]))
           ELSE IF note_id = <<>>
           THEN Return(p, "update", NoCtx, response(400, [error |-> "Note id is required"]))
           ELSE IF parsed.exc # ""
           THEN Return(p, "update", idctx, ParseFailure(parsed))
           ELSE /\ clock' = clock + 1
                /\ Proceed(p, "update",
                       [note_id |-> note_id, title |-> parsed.title,
                        note |-> parsed.note, now |-> t])

\* what the handler returns after update_item ended as r
update_result(r) ==
    IF r.err = "" THEN response(200, r.Attributes)
    ELSE IF ~IsClientError(r.err) THEN Unhandled(r.err)
    ELSE IF r.err = ConditionalCheckFailed
    THEN response(404, [error |-> "Note not found"])
    ELSE response(500, [error |-> "Failed to update note"])

\* lambda_handler from the update_item call to the return
update_call(p, outcome) ==
    /\ pc[p] = "call" /\ op[p] = "update"
    /\ LET c == ctx[p]
           r == update_item(table, c.note_id, c.title, c.note, c.now, outcome)
       IN  /\ table' = r.table
           /\ resp' = [resp EXCEPT ![p] = update_result(r)]
           /\ fresh' = Without(fresh, c.note_id)
           /\ refused' = Refusal(c.note_id, r.err)
    /\ pc' = [pc EXCEPT ![p] = "done"]
    /\ ctx' = [ctx EXCEPT ![p] = Returned(ctx[p])]
    /\ UNCHANGED <<replica, clock, op, gone, event>>

--------------------------------------------------------------------------
(* delete.py                                                               *)

\* lambda_handler up to the delete_item call
delete_begin(p, env, pp) ==
    /\ pc[p] = "idle"
    /\ LET note_id == get_note_id(pp)
       IN  IF require_env(env)
           THEN Return(p, "delete", NoCtx, response(500, [error |-> EnvError]))
           ELSE IF note_id = <<>>
           THEN Return(p, "delete", NoCtx, response(400, [error |-> "Note id is required"]))
           ELSE Proceed(p, "delete", [NoCtx EXCEPT !.note_id = note_id])
                /\ UNCHANGED clock

\* what the handler returns after delete_item ended as r
delete_result(r) ==
    IF r.err = "" THEN response(200, [message |-> "Note deleted"])
    ELSE IF ~IsClientError(r.err) THEN Unhandled(r.err)
    ELSE IF r.err = ConditionalCheckFailed
    THEN response(404, [error |-> "Note not found"])
    ELSE response(500, [error |-> "Failed to delete note"])

\* lambda_handler from the delete_item call to the return
delete_call(p, outcome) ==
    /\ pc[p] = "call" /\ op[p] = "delete"
    /\ LET r == delete_item(table, ctx[p].note_id, outcome)
       IN  /\ table' = r.table
           /\ resp' = [resp EXCEPT ![p] = delete_result(r)]
           /\ gone' = IF r.err = "" THEN gone \cup {ctx[p].note_id} ELSE gone
           /\ refused' = Refusal(ctx[p].note_id, r.err)
           /\ fresh' = Without(fresh, ctx[p].note_id)
    /\ pc' = [pc EXCEPT ![p] = "done"]
    /\ UNCHANGED <<replica, clock, op, ctx, event>>

--------------------------------------------------------------------------
(* Spec: the workers run concurrently.  Any worker starts any handler, or *)
(* makes the table call it has reached.  The requests are a cross-section *)
(* of the request shapes: one or two per way a handler can end.  The run  *)
(* ends once the clock has been read MaxClock times.  A worker whose      *)
(* response is out becomes free for its next invocation, and the lagging  *)
(* copy of the table catches up at any time.                              *)

TableEnv == [set |-> TRUE, v |-> <<"n">>]
UnsetEnv == [set |-> FALSE, v |-> <<>>]

SomeEnvs == {UnsetEnv, TableEnv}

SomeBodies ==
    { Obj(StrF(<<" ", "a">>), StrF(<<"x", " ">>)),
      Obj(NullF, StrF(<<"y">>)),
      Obj(StrF(<<"\t">>), StrF(<<"x">>)),
      NoneBody }

SomeIds == 1..SpecIds

SomePaths ==
    {NonePath} \cup {PathDict(StrF(<<" ">> \o UuidStr(n) \o <<"\n">>)) : n \in SomeIds}

CreateBegin == \E p \in Procs, env \in SomeEnvs, body \in SomeBodies, uuid \in SomeIds,
                  t \in now :
                    create_begin(p, env, body, uuid, t) /\ clock' <= MaxClock
CreatePut   == \E p \in Procs, o \in StoreOutcomes : create_put(p, o)
ListBegin   == \E p \in Procs, env \in SomeEnvs : list_begin(p, env)
ListQuery   == \E p \in Procs, o \in StoreOutcomes : list_query(p, o)
UpdateBegin == \E p \in Procs, env \in SomeEnvs, pp \in SomePaths, body \in SomeBodies,
                  t \in now :
                    update_begin(p, env, pp, body, t) /\ clock' <= MaxClock
UpdateCall  == \E p \in Procs, o \in StoreOutcomes : update_call(p, o)
DeleteBegin == \E p \in Procs, env \in SomeEnvs, pp \in SomePaths :
                    delete_begin(p, env, pp)
DeleteCall  == \E p \in Procs, o \in StoreOutcomes : delete_call(p, o)
Finish      == \E p \in Procs : finish(p)
Replicate   == replicate

Next ==
    \/ CreateBegin
    \/ CreatePut
    \/ ListBegin
    \/ ListQuery
    \/ UpdateBegin
    \/ UpdateCall
    \/ DeleteBegin
    \/ DeleteCall
    \/ Finish
    \/ Replicate

Spec == Init /\ [][Next]_vars

--------------------------------------------------------------------------
(* SpecRequests: one invocation of one handler, for every request shape   *)
(* and every environment, on the table as deployed.                       *)

\* the worker that runs alone
Solo == CHOOSE p \in Procs : \A q \in Procs : p <= q

Events ==
    {Request("create", env, NoPathKey, body, uuid) :
        env \in EnvValues, body \in Bodies, uuid \in uuid4}
    \cup {Request("update", env, pp, body, 1) :
        env \in EnvValues, pp \in PathParams, body \in Bodies}
    \cup {Request("delete", env, pp, NoBodyKey, 1) :
        env \in EnvValues, pp \in PathParams}
    \cup {Request("list", env, NoPathKey, NoBodyKey, 1) : env \in EnvValues}

InitRequests ==
    /\ event \in Events
    /\ table = <<>>
    /\ replica = <<>>
    /\ clock = 0
    /\ pc = [p \in Procs |-> "idle"]
    /\ op = [p \in Procs |-> "none"]
    /\ ctx = [p \in Procs |-> NoCtx]
    /\ resp = [p \in Procs |-> NoResp]
    /\ gone = {}
    /\ refused = {}
    /\ fresh = <<>>

SoloCreateBegin == /\ event.op = "create" /\ pc[Solo] = "idle"
                   /\ \E t \in now :
                         create_begin(Solo, event.env, event.body, event.uuid, t)
SoloCreatePut   == \E o \in StoreOutcomes : create_put(Solo, o)
SoloListBegin   == /\ event.op = "list" /\ pc[Solo] = "idle"
                   /\ list_begin(Solo, event.env)
SoloListQuery   == \E o \in StoreOutcomes : list_query(Solo, o)
SoloUpdateBegin == /\ event.op = "update" /\ pc[Solo] = "idle"
                   /\ \E t \in now :
                         update_begin(Solo, event.env, event.pathParameters, event.body, t)
SoloUpdateCall  == \E o \in StoreOutcomes : update_call(Solo, o)
SoloDeleteBegin == /\ event.op = "delete" /\ pc[Solo] = "idle"
                   /\ delete_begin(Solo, event.env, event.pathParameters)
SoloDeleteCall  == \E o \in StoreOutcomes : delete_call(Solo, o)

NextRequests ==
    \/ SoloCreateBegin
    \/ SoloCreatePut
    \/ SoloListBegin
    \/ SoloListQuery
    \/ SoloUpdateBegin
    \/ SoloUpdateCall
    \/ SoloDeleteBegin
    \/ SoloDeleteCall

SpecRequests == InitRequests /\ [][NextRequests]_vars

TypeOK ==
    /\ clock \in Nat
    /\ \A p \in Procs : pc[p] \in {"idle", "call", "done"} /\ op[p] \in Ops
    /\ gone \subseteq UUIDs
    /\ refused \subseteq gone
    /\ gone \cap DOMAIN table = {}
    /\ DOMAIN fresh \subseteq DOMAIN table

--------------------------------------------------------------------------
(* SpecCreateRace: Create invocations that all draw the same id and all   *)
(* start before any of them makes its table call, with valid payloads,    *)
(* the table configured and answering.                                    *)

ValidBodies == {b \in Bodies : parse_body(b).exc = ""}

RaceCreateBegin == \E p \in Procs, body \in ValidBodies, uuid \in uuid4, t \in now :
                        /\ pc[p] = "idle"
                        /\ \A q \in Procs : pc[q] # "done"
                        /\ \A q \in Procs : pc[q] # "idle" => ctx[q].note_id = UuidStr(uuid)
                        /\ create_begin(p, TableEnv, body, uuid, t)
RaceCreatePut   == \E p \in Procs : create_put(p, "ok")

NextCreateRace ==
    \/ RaceCreateBegin
    \/ RaceCreatePut

SpecCreateRace == Init /\ [][NextCreateRace]_vars

--------------------------------------------------------------------------
(* SpecDeleteUpdateRace: one note is created; then a Delete and an Update *)
(* on its id are both started before either makes its table call (valid   *)
(* payload, the table configured and answering).                          *)

RaceSetupBegin  == \E body \in ValidBodies, uuid \in uuid4, t \in now :
                        /\ table = <<>> /\ gone = {}
                        /\ \A q \in Procs : pc[q] = "idle"
                        /\ create_begin(Solo, TableEnv, body, uuid, t)
RaceSetupPut    == create_put(Solo, "ok")
RaceSetupFinish == op[Solo] = "create" /\ finish(Solo)
RaceDeleteBegin == \E p \in Procs, u \in DOMAIN table :
                        /\ \A q \in Procs : op[q] # "delete"
                        /\ delete_begin(p, TableEnv, PathDict(StrF(u)))
RaceUpdateBegin == \E p \in Procs, u \in DOMAIN table, body \in ValidBodies, t \in now :
                        /\ \A q \in Procs : op[q] # "update"
                        /\ update_begin(p, TableEnv, PathDict(StrF(u)), body, t)
RaceDeleteCall  == \E p \in Procs :
                        /\ \E q \in Procs : op[q] = "update"
                        /\ delete_call(p, "ok")
RaceUpdateCall  == \E p \in Procs :
                        /\ \E q \in Procs : op[q] = "delete"
                        /\ update_call(p, "ok")

NextDeleteUpdateRace ==
    \/ RaceSetupBegin
    \/ RaceSetupPut
    \/ RaceSetupFinish
    \/ RaceDeleteBegin
    \/ RaceUpdateBegin
    \/ RaceDeleteCall
    \/ RaceUpdateCall

SpecDeleteUpdateRace == Init /\ [][NextDeleteUpdateRace]_vars

--------------------------------------------------------------------------
(* SpecUpdateRace: one note is created; then two Updates on its id are    *)
(* both started before either makes its table call (valid payloads, the   *)
(* table configured and answering).                                       *)

OverlapUpdateBegin == \E p \in Procs, u \in DOMAIN table, body \in ValidBodies, t \in now :
                        /\ op[p] # "update"
                        /\ update_begin(p, TableEnv, PathDict(StrF(u)), body, t)
OverlapUpdateCall  == \E p \in Procs :
                        /\ \A q \in Procs : op[q] = "update"
                        /\ update_call(p, "ok")

NextUpdateRace ==
    \/ RaceSetupBegin
    \/ RaceSetupPut
    \/ RaceSetupFinish
    \/ OverlapUpdateBegin
    \/ OverlapUpdateCall

SpecUpdateRace == Init /\ [][NextUpdateRace]_vars

--------------------------------------------------------------------------
(* SpecListTwice: notes are created; then each worker runs one List, and  *)
(* nothing else touches the table once the first List has started.  The   *)
(* lagging copy of the table catches up at any time.                      *)

ListSetupBegin == \E p \in Procs, body \in ValidBodies, uuid \in uuid4, t \in now :
                        /\ \A q \in Procs : op[q] # "list"
                        /\ create_begin(p, TableEnv, body, uuid, t)
                        /\ clock' <= MaxClock
ListSetupPut   == \E p \in Procs :
                        /\ \A q \in Procs : op[q] # "list"
                        /\ create_put(p, "ok")
ListSetupFinish == \E p \in Procs : op[p] = "create" /\ finish(p)
TwiceListBegin == \E p \in Procs, env \in SomeEnvs :
                        /\ op[p] # "list"
                        /\ list_begin(p, env)
TwiceListQuery == \E p \in Procs, o \in StoreOutcomes : list_query(p, o)

NextListTwice ==
    \/ ListSetupBegin
    \/ ListSetupPut
    \/ ListSetupFinish
    \/ TwiceListBegin
    \/ TwiceListQuery
    \/ Replicate

SpecListTwice == Init /\ [][NextListTwice]_vars

--------------------------------------------------------------------------
(* SpecFullPage: one worker creates notes whose text is as large as an    *)
(* item of the table can hold, one after the other, and runs List in      *)
(* between; the table is configured and answering, and its lagging copy   *)
(* catches up at any time.                                                *)

FullBody == Obj(StrF(<<"b">>), StrF(<<Block>>))

FullCreateBegin == \E uuid \in uuid4, t \in now :
                        /\ create_begin(Solo, TableEnv, FullBody, uuid, t)
                        /\ clock' <= NumIds
FullCreatePut   == create_put(Solo, "ok")
FullListBegin   == list_begin(Solo, TableEnv)
FullListQuery   == list_query(Solo, "ok")
FullFinish      == finish(Solo)

NextFullPage ==
    \/ FullCreateBegin
    \/ FullCreatePut
    \/ FullListBegin
    \/ FullListQuery
    \/ FullFinish
    \/ Replicate

SpecFullPage == Init /\ [][NextFullPage]_vars

--------------------------------------------------------------------------
(* Claims.                                                                 *)

\* worker p ended an invocation in this step: its response is out
Completes(p) == pc[p] # "done" /\ pc'[p] = "done"

\* worker p started an invocation in this step
Begins(p) == pc[p] = "idle" /\ pc'[p] # "idle"

\* C1: of two concurrent Create invocations that generated the same id
\* (valid payloads, store available), once both have returned exactly one
\* returned 201 and the other 500, exactly one record with that id is
\* stored, and its title and note are those of the invocation that got 201.
C1_CreateRaceOneWinner ==
    \A p, q \in Procs :
        ( /\ p # q
          /\ pc[p] = "done" /\ pc[q] = "done"
          /\ op[p] = "create" /\ op[q] = "create"
          /\ ctx[p].note_id = ctx[q].note_id
          /\ \A r \in Procs \ {p, q} : pc[r] = "idle" )
        => LET id == ctx[p].note_id
               w  == IF resp[p].statusCode = 201 THEN p ELSE q
               l  == IF w = p THEN q ELSE p
           IN  /\ resp[w].statusCode = 201
               /\ resp[l].statusCode = 500
               /\ Cardinality({k \in DOMAIN table : table[k].id = id}) = 1
               /\ table[id].title = resp[w].body.title
               /\ table[id].note = resp[w].body.note
               /\ resp[w].body.id = id

\* C1 witness: both creates, started before either made its table call,
\* have returned: one stored its record, the other was refused
C1_Witness ==
    \E p, q \in Procs :
        /\ p # q
        /\ pc[p] = "done" /\ pc[q] = "done"
        /\ op[p] = "create" /\ op[q] = "create"
        /\ ctx[p].note_id = ctx[q].note_id
        /\ resp[p].statusCode = 201 /\ resp[q].statusCode = 500
        /\ ctx[p].note_id \in DOMAIN table
        /\ table[ctx[p].note_id].title = resp[p].body.title
        /\ table[ctx[p].note_id].note = resp[p].body.note
        /\ resp[q] = response(500, [error |-> "Failed to create note"])

\* the Delete and the Update of the race have both returned
RaceOver(d, u) ==
    /\ op[d] = "delete" /\ op[u] = "update"
    /\ pc[d] = "done" /\ pc[u] = "done"
    /\ ctx[d].note_id = ctx[u].note_id

\* C2 as stated: when a Delete and an Update on the same existing id run
\* concurrently, exactly one of the two returns 200 and the other 404.
C2_ExactlyOneSucceeds ==
    \A d, u \in Procs :
        RaceOver(d, u) =>
            \/ resp[d].statusCode = 200 /\ resp[u].statusCode = 404
            \/ resp[d].statusCode = 404 /\ resp[u].statusCode = 200

\* C2 amended: the Delete returns 200 in every interleaving and the record
\* is absent once both returned; the Update returns 404 when its table call
\* comes after the Delete's and 200 (with the record it wrote) when it
\* comes before, so both succeed in that interleaving.
C2_DeleteWinsUpdateByOrder ==
    /\ [](\A d, u \in Procs :
            RaceOver(d, u) =>
                /\ resp[d].statusCode = 200
                /\ resp[u].statusCode \in {200, 404}
                /\ ctx[d].note_id \notin DOMAIN table)
    /\ [][\A d, u \in Procs :
            ( /\ op[d] = "delete" /\ op[u] = "update"
              /\ pc[d] # "idle" /\ pc[u] = "call"
              /\ update_call(u, "ok") )
            => /\ (pc[d] = "done" => resp'[u].statusCode = 404 /\ table' = table)
               /\ (pc[d] = "call" => /\ resp'[u].statusCode = 200
                                     /\ table'[ctx[u].note_id] = resp'[u].body)]_vars

\* C2 witness: the interleaving in which both return 200
C2_Witness ==
    \E d, u \in Procs :
        /\ RaceOver(d, u)
        /\ resp[d].statusCode = 200 /\ resp[u].statusCode = 200
        /\ table = <<>>

\* what the claims call a request's parts
Blank(f) == f.t = "missing" \/ (f.t = "str" /\ \A i \in 1..Len(f.s) : f.s[i] \in Whitespace)
IsText(f) == f.t = "str" /\ ~Blank(f)
ValidPayload(body) == body.t = "object" /\ IsText(body.title) /\ IsText(body.note)
BlankField(body) == body.t \in {"object", "nokey"} /\ (Blank(body.title) \/ Blank(body.note))
NonEmptyId(pp) == pp.t = "dict" /\ pp.id.t = "str" /\ pp.id.s # <<>>
NonBlankId(pp) == pp.t = "dict" /\ IsText(pp.id)
MissingOrEmptyId(pp) ==
    \/ pp.t \in {"nokey", "none"}
    \/ pp.t = "dict" /\ (pp.id.t = "missing" \/ (pp.id.t = "str" /\ pp.id.s = <<>>))
AbsentOrBlank(env) == ~env.set \/ \A i \in 1..Len(env.v) : env.v[i] \in Whitespace

\* the requests of Spec that the claims single out
NonEmptyPaths == {x \in SomePaths : NonEmptyId(x)}
NonBlankPaths == {x \in SomePaths : NonBlankId(x)}
ValidPayloads == {b \in SomeBodies : ValidPayload(b)}

\* worker p makes the table call of an Update or a Delete in this step
MutatingCall(p) == pc[p] = "call" /\ op[p] \in {"update", "delete"} /\ pc'[p] = "done"

\* worker p makes that call and the table answers it
AnsweredCall(p) == update_call(p, "ok") \/ delete_call(p, "ok")

\* C3 as stated: for any non-empty id that has no record in the store, an
\* Update with a valid payload and a Delete on that id return 404 and leave
\* the whole store unchanged.
C3_MissingIdAlways404 ==
    [][\A p \in Procs :
        /\ (MutatingCall(p) /\ ctx[p].note_id \notin DOMAIN table)
            => resp'[p].statusCode = 404 /\ table' = table
        /\ (Begins(p) /\ op'[p] \in {"update", "delete"} /\ pc'[p] = "done")
            => \A env \in SomeEnvs, pp \in NonEmptyPaths :
                 /\ \A body \in ValidPayloads :
                        ( /\ \E t \in now : update_begin(p, env, pp, body, t)
                          /\ strip(pp.id.s) \notin DOMAIN table )
                            => resp'[p].statusCode = 404
                 /\ (delete_begin(p, env, pp) /\ strip(pp.id.s) \notin DOMAIN table)
                        => resp'[p].statusCode = 404]_vars

\* C3 amended: for any id that has no record in the store, an Update or a
\* Delete that reaches its store call on that id (store target configured,
\* id non-empty after trimming, payload valid) returns 404 when the store
\* answers the call, and leaves the whole store unchanged whether the store
\* answers or fails; in particular Update never creates a record.
C3_MissingIdGives404 ==
    [][\A p \in Procs :
        (MutatingCall(p) /\ ctx[p].note_id \notin DOMAIN table)
            => /\ table' = table
               /\ AnsweredCall(p) => resp'[p].statusCode = 404]_vars

\* C3 witness: an Update returned 404 on a table that holds nothing and on
\* which nothing was ever deleted
C3_Witness ==
    \E p \in Procs :
        /\ pc[p] = "done" /\ op[p] = "update"
        /\ resp[p] = response(404, [error |-> "Note not found"])
        /\ ctx[p].note_id # <<>>
        /\ table = <<>> /\ gone = {} /\ clock = 1

\* C4 as stated: after a Delete on an id returned 200, every later Delete or
\* Update on that id returns 404, whatever runs in between.
C4_DeleteIsTerminal ==
    [][\A p \in Procs :
        (Completes(p) /\ op'[p] \in {"update", "delete"} /\ ctx'[p].note_id \in gone)
            => resp'[p].statusCode = 404]_vars

\* C4 amended: after a Delete on an id returned 200, and until a Create
\* returns 201 with that same id, every Delete or Update on the id whose
\* store call is answered returns 404 and leaves the store unchanged.
C4_DeletedUntilRecreated ==
    [][\A p \in Procs :
        (MutatingCall(p) /\ ctx[p].note_id \in gone /\ AnsweredCall(p))
            => resp'[p].statusCode = 404 /\ table' = table]_vars

\* C4 witness: a Delete or Update was answered 404 on an id that a Delete
\* had removed before
C4_Witness ==
    \E p \in Procs :
        /\ pc[p] = "done" /\ op[p] \in {"update", "delete"}
        /\ resp[p].statusCode = 404
        /\ ctx[p].note_id \in refused

\* C5: every Update that returns 200 leaves the record's updated_at strictly
\* greater than it was before that update.
C5_UpdatedAtStrictlyIncreases ==
    [][\A p \in Procs :
        (MutatingCall(p) /\ op[p] = "update" /\ resp'[p].statusCode = 200)
            => table'[ctx[p].note_id].updated_at > table[ctx[p].note_id].updated_at]_vars

(* SpecUpdateFrame: one worker creates up to FrameNotes notes, one after   *)
(* the other; every worker runs one Update on a stored id, at any time,   *)
(* so that Updates on the same or on different records run one after the  *)
(* other or overlap, while the table holds one record or several (valid   *)
(* payloads with and without surrounding whitespace, the id padded with   *)
(* whitespace, the table configured and answering).                       *)

FrameNotes == 2

FrameBodies == {b \in Bodies : ValidPayload(b)}

FramePaths == {PathDict(StrF(<<" ">> \o u \o <<"\n">>)) : u \in UUIDs}

FrameCreateBegin == \E body \in FrameBodies, uuid \in SomeIds, t \in now :
                        /\ Cardinality(DOMAIN table) < FrameNotes
                        /\ create_begin(Solo, TableEnv, body, uuid, t)
                        /\ clock' <= FrameNotes + NumProcs
FrameCreatePut   == create_put(Solo, "ok")
FrameFinish      == op[Solo] = "create" /\ finish(Solo)
FrameUpdateBegin == \E p \in Procs, pp \in FramePaths, body \in FrameBodies, t \in now :
                        /\ op[p] # "update"
                        /\ strip(pp.id.s) \in DOMAIN table
                        /\ update_begin(p, TableEnv, pp, body, t)
                        /\ clock' <= FrameNotes + NumProcs
FrameUpdateCall  == \E p \in Procs : update_call(p, "ok")

NextUpdateFrame ==
    \/ FrameCreateBegin
    \/ FrameCreatePut
    \/ FrameFinish
    \/ FrameUpdateBegin
    \/ FrameUpdateCall

SpecUpdateFrame == Init /\ [][NextUpdateFrame]_vars

\* C6: an Update that returns 200 changes only its record's title, note and
\* updated_at: owner, id and created_at are as before, title and note are
\* the trimmed values of the request, every other record is unchanged.
C6_UpdateFrame ==
    [][\A p \in Procs :
        /\ (MutatingCall(p) /\ op[p] = "update" /\ resp'[p].statusCode = 200)
            => LET id == ctx[p].note_id
               IN  /\ id \in DOMAIN table
                   /\ DOMAIN table' = DOMAIN table
                   /\ \A k \in DOMAIN table \ {id} : table'[k] = table[k]
                   /\ DOMAIN table'[id] = DOMAIN table[id]
                   /\ table'[id].owner = table[id].owner
                   /\ table'[id].id = table[id].id
                   /\ table'[id].created_at = table[id].created_at
                   /\ table'[id].title = ctx[p].title
                   /\ table'[id].note = ctx[p].note
                   /\ table'[id].updated_at = ctx[p].now
        /\ (Begins(p) /\ op'[p] = "update" /\ pc'[p] = "call")
            => \A pp \in FramePaths, body \in FrameBodies, t \in now :
                    update_begin(p, TableEnv, pp, body, t)
                        => /\ ctx'[p].title = strip(body.title.s)
                           /\ ctx'[p].note = strip(body.note.s)]_vars

\* C6 witness: the table holds two records; two Updates on one of them have
\* both returned 200, the second replacing what the first wrote (title and
\* timestamp), and the other record is still as its Create returned it
C6_Witness ==
    \E p, q \in Procs, k \in DOMAIN fresh :
        /\ p # q
        /\ pc[p] = "done" /\ op[p] = "update" /\ resp[p].statusCode = 200
        /\ pc[q] = "done" /\ op[q] = "update" /\ resp[q].statusCode = 200
        /\ ctx[p].note_id = ctx[q].note_id
        /\ ctx[p].note_id \in DOMAIN table /\ k \in DOMAIN table
        /\ k # ctx[p].note_id
        /\ table[ctx[p].note_id] = resp[q].body
        /\ resp[p].body.title # resp[q].body.title
        /\ resp[p].body.updated_at # resp[q].body.updated_at
        /\ resp[q].body.created_at = resp[p].body.created_at
        /\ table[k].title = fresh[k].title /\ table[k].note = fresh[k].note
        /\ table[k].created_at = table[k].updated_at

\* the store target is set and not blank
Configured(env) == ~AbsentOrBlank(env)

\* the request under study is a Create or Update whose title or note is
\* missing, empty or blank, or an Update whose path id is missing or empty
C7_Case ==
    \/ event.op \in {"create", "update"} /\ BlankField(event.body)
    \/ event.op = "update" /\ MissingOrEmptyId(event.pathParameters)

\* C7 as stated: such a request returns 400, makes no store call and
\* changes nothing in the store.
C7_InvalidAlways400 ==
    C7_Case =>
        /\ pc[Solo] # "call" /\ table = <<>>
        /\ pc[Solo] = "done" => resp[Solo].statusCode = 400

\* C7 amended: when the store target is configured, such a request returns
\* 400, makes no store call and changes nothing in the store.
C7_InvalidGives400 ==
    (C7_Case /\ Configured(event.env)) =>
        /\ pc[Solo] # "call" /\ table = <<>>
        /\ pc[Solo] = "done" => resp[Solo].statusCode = 400

\* C7 witness: an Update with a good id whose note is a line feed and an
\* em space returned 400
C7_Witness ==
    /\ pc[Solo] = "done" /\ event.op = "update"
    /\ NonBlankId(event.pathParameters)
    /\ IsText(event.body.title) /\ event.body.note = StrF(<<"\n", "U+2003">>)
    /\ resp[Solo] = response(400, [error |-> "Invalid request body: note is required"])
    /\ table = <<>>

\* C8: when the store target is absent or blank, each of the four handlers
\* returns 500 with the same fixed message and makes no store call, whether
\* the request's id and payload are valid or not.
C8_ConfigFirst ==
    AbsentOrBlank(event.env) =>
        /\ pc[Solo] # "call" /\ table = <<>>
        /\ pc[Solo] = "done" => resp[Solo] = response(500, [error |-> EnvError])

\* C8 witness: an Update with a store target made of a tab and a no-break
\* space, no path id and an unparseable body returned the configuration 500
C8_Witness ==
    /\ pc[Solo] = "done" /\ event.op = "update"
    /\ event.env = [set |-> TRUE, v |-> <<"\t", "U+00A0">>]
    /\ event.pathParameters = NonePath /\ event.body = BadJson
    /\ resp[Solo] = response(500, [error |-> EnvError])

\* the items of a sequence
Range(seq) == {seq[i] : i \in 1..Len(seq)}

\* worker p gets its List answered with 200 in this step
ListReturns200(p) ==
    pc[p] = "call" /\ op[p] = "list" /\ pc'[p] = "done" /\ resp'[p].statusCode = 200

\* C9: a List that returns 200 returns exactly the records the store holds
\* for the owner at that moment, none omitted and none twice, however many
\* there are.  (Stated for the Lists answered while the lagging copy of the
\* table agrees with the table, so that no read is stale.)
C9_ListReturnsAll ==
    [][\A p \in Procs :
        (ListReturns200(p) /\ replica = table) =>
            LET items == resp'[p].body.items
            IN  /\ Range(items) = {table[k] : k \in {x \in DOMAIN table : table[x].owner = OWNER}}
                /\ Len(items) = Cardinality(Range(items))]_vars

\* C10: after a Create returned 201 with id i and before any Update or
\* Delete on i, a List that returns 200 holds exactly one item with id i,
\* with the fixed owner, the created title and note, and equal timestamps.
C10_RoundTrip ==
    [][\A p \in Procs :
        ListReturns200(p) =>
            LET items == resp'[p].body.items
            IN  \A i \in DOMAIN fresh :
                    /\ Cardinality({n \in 1..Len(items) : items[n].id = i}) = 1
                    /\ \A n \in 1..Len(items) :
                          items[n].id = i =>
                              /\ items[n].owner = OWNER
                              /\ items[n].title = fresh[i].title
                              /\ items[n].note = fresh[i].note
                              /\ items[n].created_at = items[n].updated_at]_vars

\* worker p makes the put_item call of a Create in this step and returns 201
CreateReturns201(p) ==
    pc[p] = "call" /\ op[p] = "create" /\ pc'[p] = "done" /\ resp'[p].statusCode = 201

\* worker p has returned 201 from a Create
Created(p) == pc[p] = "done" /\ op[p] = "create" /\ resp[p].statusCode = 201

\* C11 as stated: two Creates that both returned 201 returned two distinct
\* ids (and every 201 returns an id no stored record had).
C11_DistinctIdsAlways ==
    \A p, q \in Procs :
        (p # q /\ Created(p) /\ Created(q)) => resp[p].body.id # resp[q].body.id

\* C11 amended: a Create that returns 201 returns an id that no record in
\* the store had at its insert, adds exactly that record and changes no
\* other; so its id differs from the id of every earlier 201 whose record
\* is still stored, and the two records are both stored.  (An id whose
\* record was deleted can be returned again.)
C11_FreshAmongStored ==
    [][\A p \in Procs :
        CreateReturns201(p) =>
            LET id == resp'[p].body.id
            IN  /\ id = ctx[p].note_id
                /\ id \notin DOMAIN table
                /\ DOMAIN table' = DOMAIN table \cup {id}
                /\ \A k \in DOMAIN table : table'[k] = table[k]
                /\ table'[id] = create_item(ctx[p])
                /\ \A q \in Procs \ {p} :
                      (Created(q) /\ resp[q].body.id \in DOMAIN table)
                          => /\ resp[q].body.id # id
                             /\ table'[resp[q].body.id] # table'[id]]_vars

\* C11 witness: two Creates returned 201 with different ids and both records
\* are stored
C11_Witness ==
    \E p, q \in Procs :
        /\ p # q /\ Created(p) /\ Created(q)
        /\ resp[p].body.id # resp[q].body.id
        /\ {resp[p].body.id, resp[q].body.id} \subseteq DOMAIN table

\* the ways a table call fails other than by a failed condition
StoreFailures == StoreOutcomes \ {"ok"}

\* C12: a store failure other than a failed existence condition, during any
\* of the four handlers, ends the invocation with a 500 response carrying
\* the handler's generic message; none leaves the handler as an exception.
C12_StoreFailureGives500 ==
    [][\A o \in StoreFailures :
        /\ create_put(Solo, o)
              => resp'[Solo] = response(500, [error |-> "Failed to create note"])
        /\ list_query(Solo, o)
              => resp'[Solo] = response(500, [error |-> "Failed to list notes"])
        /\ update_call(Solo, o)
              => resp'[Solo] = response(500, [error |-> "Failed to update note"])
        /\ delete_call(Solo, o)
              => resp'[Solo] = response(500, [error |-> "Failed to delete note"])]_vars

\* the request under study is a Create or Update, past the configuration
\* check and the path id, whose body is not a JSON object: unparseable
\* text, null, or JSON of another type
C13_Case ==
    /\ event.op \in {"create", "update"}
    /\ Configured(event.env)
    /\ event.op = "update" => NonBlankId(event.pathParameters)
    /\ event.body.t \in {"badjson", "none", "array"}

\* C13: such a request returns a 400 response and makes no store call; the
\* handler never ends without a response.
C13_MalformedBodyGives400 ==
    C13_Case =>
        /\ pc[Solo] # "call" /\ table = <<>>
        /\ pc[Solo] = "done" => resp[Solo].statusCode = 400 /\ resp[Solo].raised = ""

\* the six attributes of a note
NoteFields == {"owner", "id", "title", "note", "created_at", "updated_at"}

\* worker p makes the update_item call of an Update in this step and returns 200
UpdateReturns200(p) ==
    pc[p] = "call" /\ op[p] = "update" /\ pc'[p] = "done" /\ resp'[p].statusCode = 200

\* C14: an Update that returns 200 returns the record exactly as stored
\* right after its write: all six fields, with this request's title, note
\* and updated_at and the id and created_at the record had before, also
\* when another Update on the same id is in progress.
C14_UpdateReturnsStoredRecord ==
    [][\A p \in Procs :
        UpdateReturns200(p) =>
            LET id  == ctx[p].note_id
                rec == resp'[p].body
            IN  /\ rec = table'[id]
                /\ DOMAIN rec = NoteFields
                /\ rec.title = ctx[p].title
                /\ rec.note = ctx[p].note
                /\ rec.updated_at = ctx[p].now
                /\ rec.id = id /\ rec.id = table[id].id
                /\ rec.created_at = table[id].created_at
                /\ rec.owner = table[id].owner]_vars

\* C14 witness: two overlapping Updates on one id both returned 200; the
\* record one of them returned has since been replaced by the other's
C14_Witness ==
    \E p, q \in Procs :
        /\ p # q
        /\ pc[p] = "done" /\ op[p] = "update" /\ resp[p].statusCode = 200
        /\ pc[q] = "done" /\ op[q] = "update" /\ resp[q].statusCode = 200
        /\ ctx[p].note_id = ctx[q].note_id
        /\ table[ctx[p].note_id] = resp[q].body
        /\ table[ctx[p].note_id] # resp[p].body

\* a fully populated note: all six fields, the fixed owner, title and note
\* non-empty and trimmed
FullRecord(rec) ==
    /\ DOMAIN rec = NoteFields
    /\ rec.owner = OWNER
    /\ rec.title # <<>> /\ strip(rec.title) = rec.title
    /\ rec.note # <<>> /\ strip(rec.note) = rec.note

\* C15: in every reachable state every record in the store is fully
\* populated and stored under its own id; an Update racing a Delete never
\* leaves a partial record.
C15_RecordsFullyPopulated ==
    \A k \in DOMAIN table : FullRecord(table[k]) /\ table[k].id = k

\* C15 witness: an Update racing a Delete of the same id wrote first and
\* returned 200; the record is fully populated while the Delete is about
\* to make its table call
C15_Witness ==
    \E d, u \in Procs :
        /\ op[d] = "delete" /\ pc[d] = "call"
        /\ op[u] = "update" /\ pc[u] = "done" /\ resp[u].statusCode = 200
        /\ ctx[d].note_id = ctx[u].note_id
        /\ ctx[u].note_id \in DOMAIN table
        /\ FullRecord(table[ctx[u].note_id])
        /\ table[ctx[u].note_id] = resp[u].body

\* the request under study passes the configuration check and the
\* validation of its handler
PassesValidation ==
    /\ Configured(event.env)
    /\ event.op \in {"update", "delete"} => NonBlankId(event.pathParameters)
    /\ event.op \in {"create", "update"} => parse_body(event.body).exc = ""

\* r is a response returned by a handler
IsResponse(r) == r.raised = "" /\ r.statusCode \in {200, 201, 400, 404, 500}

\* C16: an invocation makes exactly one store call when configuration and
\* validation pass and none otherwise, makes no second call after the
\* first (failed or not), and ends by returning one response.
C16_OneCallOneResponse ==
    [][/\ pc[Solo] = "idle" =>
            /\ pc'[Solo] = "call" <=> PassesValidation
            /\ pc'[Solo] = "done" <=> ~PassesValidation
       /\ pc[Solo] = "call" => pc'[Solo] = "done"
       /\ pc[Solo] = "done" => pc'[Solo] = "done"
       /\ pc'[Solo] = "done" => IsResponse(resp'[Solo])]_vars

\* worker p has returned 200 from a List
Listed(p) == pc[p] = "done" /\ op[p] = "list" /\ resp[p].statusCode = 200

\* C17: a List invocation leaves the store unchanged whatever it returns,
\* and two Lists with no mutation taking effect between them return the
\* same set of items.
C17_ListReadOnly ==
    /\ [][\A p \in Procs :
            (op'[p] = "list" /\ (Begins(p) \/ Completes(p))) => table' = table]_vars
    /\ [](\A p, q \in Procs :
            (Listed(p) /\ Listed(q))
                => Range(resp[p].body.items) = Range(resp[q].body.items))

\* the ids stored
StoredIds(tbl) == DOMAIN tbl

\* C18: the set of stored ids changes only by a Create that returns 201,
\* which adds exactly the id it returns, and by a Delete that returns 200,
\* which removes exactly the id it was given; every Update, every List and
\* every invocation that returns 400 or 404 leaves the set unchanged.
C18_IdsChangeByCreateAndDelete ==
    /\ [][\A p \in Procs :
           Completes(p) =>
               LET r == resp'[p]
               IN  /\ (op'[p] = "create" /\ r.statusCode = 201)
                       => /\ r.body.id \notin StoredIds(table)
                          /\ StoredIds(table') = StoredIds(table) \cup {r.body.id}
                   /\ (op'[p] = "delete" /\ r.statusCode = 200)
                       => /\ ctx[p].note_id \in StoredIds(table)
                          /\ StoredIds(table') = StoredIds(table) \ {ctx[p].note_id}
                   /\ ~(op'[p] = "create" /\ r.statusCode = 201)
                        /\ ~(op'[p] = "delete" /\ r.statusCode = 200)
                       => StoredIds(table') = StoredIds(table)]_vars
    /\ [][(\A p \in Procs : ~Completes(p)) => StoredIds(table') = StoredIds(table)]_vars

\* C18 witness: one id was added by a 201 and removed again by a 200, and
\* another id added by a 201 is stored
C18_Witness ==
    /\ gone # {}
    /\ \E p \in Procs : Created(p) /\ resp[p].body.id \in StoredIds(table)
    /\ \E d \in Procs :
          /\ pc[d] = "done" /\ op[d] = "delete" /\ resp[d].statusCode = 200
          /\ ctx[d].note_id \in gone

\* workers p and q run the two overlapping Updates of one id
UpdatePair(p, q) ==
    /\ p # q /\ op[p] = "update" /\ op[q] = "update"
    /\ ctx[p].note_id = ctx[q].note_id

\* C19: of two overlapping Updates on one existing id (valid payloads, no
\* Delete), both return 200, and the record stored at the end has title,
\* note and updated_at all of the request whose write was applied last.
C19_LastWriterWinsWhole ==
    /\ [](\A p, q \in Procs :
            (UpdatePair(p, q) /\ pc[p] = "done" /\ pc[q] = "done")
                => /\ resp[p].statusCode = 200 /\ resp[q].statusCode = 200
                   /\ (\A r \in Procs : op[r] = "update" => pc[r] = "done")
                        => table[ctx[p].note_id] \in
                              {resp[w].body : w \in {r \in Procs : op[r] = "update"}})
    /\ [][\A p, q \in Procs :
            (UpdatePair(p, q) /\ pc[q] = "done" /\ pc[p] = "call" /\ pc'[p] = "done")
                => LET rec == table'[ctx[p].note_id]
                   IN  /\ rec.title = ctx[p].title
                       /\ rec.note = ctx[p].note
                       /\ rec.updated_at = ctx[p].now]_vars

\* C19 witness: both Updates returned 200 and the record stored is the one
\* written by the Update that carries the earlier timestamp
C19_Witness ==
    \E p, q \in Procs :
        /\ UpdatePair(p, q) /\ pc[p] = "done" /\ pc[q] = "done"
        /\ resp[p].statusCode = 200 /\ resp[q].statusCode = 200
        /\ table[ctx[p].note_id] = resp[p].body
        /\ resp[p].body.updated_at < resp[q].body.updated_at
        /\ resp[p].body.title # resp[q].body.title

====
